---- MODULE Spec2Model ----
(***************************************************************************)
(* Model of the kumo component library.                                    *)
(*                                                                         *)
(* The command palette's HighlightedText: the sort / merge / emit pipeline *)
(* that turns a text and a list of inclusive [start, end] match ranges     *)
(* into plain and highlighted segments.  The command palette's keyboard    *)
(* and backdrop handlers, the ClipboardText copy handler, the primitives   *)
(* export checks and the `kumo blocks` command follow, each with its own   *)
(* state variable and specification.                                       *)
(*                                                                         *)
(* A string is a sequence of UTF-16 code units (integers); JavaScript      *)
(* indices are 0-based, TLA+ sequences are 1-based.  A range is the pair   *)
(* <<start, end>>, so range[0] of the source is r[1] here and range[1] of  *)
(* the source is r[2].                                                     *)
(***************************************************************************)
EXTENDS Integers, Sequences, FiniteSets, TLC

VARIABLES
    text,               \* prop text: string
    highlights,         \* prop highlights: HighlightRange[] (<<>> when absent)
    highlightsDefined,  \* FALSE when the highlights prop is undefined
    pc,                 \* "call" before the call, "returned" or "threw" after
    sortedHighlights,   \* local sortedHighlights
    mergedHighlights,   \* local mergedHighlights
    parts,              \* the rendered children, in order
    lastIndex,          \* local lastIndex after the forEach
    error,              \* "none", or the exception that ended the call
    palette,            \* CommandPalette: props, highlightedIndexRef, calls made
    clipboard,          \* ClipboardText: environment, copied, calls made
    exportsCheck,       \* primitives export tests: inputs and results
    cli                 \* `kumo blocks`: registry file, output, exit

highlightVars == <<text, highlights, highlightsDefined, pc, sortedHighlights,
                   mergedHighlights, parts, lastIndex, error>>

vars == <<text, highlights, highlightsDefined, pc, sortedHighlights,
          mergedHighlights, parts, lastIndex, error,
          palette, clipboard, exportsCheck, cli>>

----------------------------------------------------------------------------
(* Bounds of the explored inputs *)

\* longest text, valid-range specification
MaxLen == 6
\* most ranges in one highlights list, valid-range specification
MaxRanges == 3
\* longest text, arbitrary-range specification
MaxLenAny == 3
\* most ranges in one highlights list, arbitrary-range specification
MaxRangesAny == 2
\* how far a range offset may lie outside 0 .. text.length
Slack == 1

----------------------------------------------------------------------------
(* Helpers of the JavaScript runtime the function relies on *)

Max(a, b) == IF a >= b THEN a ELSE b

Min(a, b) == IF a <= b THEN a ELSE b

\* String.prototype.slice(start, end): negative offsets count from the end,
\* both offsets are clamped to 0 .. length, an empty window gives "".
Slice(s, start, end) ==
    LET len  == Len(s)
        from == IF start < 0 THEN Max(len + start, 0) ELSE Min(start, len)
        to   == IF end < 0 THEN Max(len + end, 0) ELSE Min(end, len)
    IN  IF from >= to THEN <<>> ELSE SubSeq(s, from + 1, to)

----------------------------------------------------------------------------
(* [...highlights].sort((a, b) => a[0] - b[0]) : a stable sort by start *)

\* insert r behind every element whose start is <= r's start
RECURSIVE InsertByStart(_, _)
InsertByStart(sorted, r) ==
    IF sorted = <<>> THEN <<r>>
    ELSE IF sorted[Len(sorted)][1] <= r[1] THEN Append(sorted, r)
    ELSE Append(InsertByStart(SubSeq(sorted, 1, Len(sorted) - 1), r),
                sorted[Len(sorted)])

RECURSIVE SortFrom(_, _, _)
SortFrom(hs, i, acc) ==
    IF i > Len(hs) THEN acc
    ELSE SortFrom(hs, i + 1, InsertByStart(acc, hs[i]))

SortByStart(hs) == SortFrom(hs, 1, <<>>)

----------------------------------------------------------------------------
(* The merge loop, one iteration.  st.merged is mergedHighlights, st.error *)
(* is the exception raised so far.  `last` is undefined on the first       *)
(* iteration; reading last[1] of undefined raises a TypeError.             *)
(*                                                                         *)
(* Ranges are arrays, and [...highlights] copies the list but not the      *)
(* arrays in it: sortedHighlights holds the caller's own arrays.  st.input *)
(* is the content of those arrays (in sorted order), st.seen the number of *)
(* iterations done, and st.owner[n] tells which array mergedHighlights[n]  *)
(* is: 0 for an array created by the loop, k for the caller's array at     *)
(* sortedHighlights[k].                                                    *)

\* variant: push(range), the caller's array itself is pushed
CopyRangeShared(ref) == ref

\* [...range]: a fresh array with the same elements
CopyRange(ref) == 0

\* last[1] = v, where last is mergedHighlights[n]; the write lands in the
\* caller's array when last is one
WriteEnd(st, n, v) ==
    [st EXCEPT !.merged[n][2] = v,
               !.input = IF st.owner[n] = 0 THEN @
                         ELSE [@ EXCEPT ![st.owner[n]][2] = v]]

\* variant: `last &&` dropped from the condition
MergeStepNoGuard(st, range) ==
    IF st.error # "none" THEN st
    ELSE IF Len(st.merged) = 0 THEN [st EXCEPT !.error = "TypeError"]
    ELSE LET n == Len(st.merged)
             last == st.merged[n]
         IN  IF range[1] <= last[2] + 1
             THEN [st EXCEPT !.merged[n][2] = Max(last[2], range[2])]
             ELSE [st EXCEPT !.merged = Append(st.merged, range)]

\* variant: `<= last[1]`, adjacent ranges are not merged
MergeStepNoAdjacent(st, range) ==
    LET n == Len(st.merged)
    IN  IF n > 0 /\ range[1] <= st.merged[n][2]
        THEN [st EXCEPT !.merged[n][2] = Max(st.merged[n][2], range[2])]
        ELSE [st EXCEPT !.merged = Append(st.merged, range)]

\* variant: `last[1] = range[1]`, the merged end may shrink
MergeStepNoMax(st, range) ==
    LET n == Len(st.merged)
    IN  IF n > 0 /\ range[1] <= st.merged[n][2] + 1
        THEN [st EXCEPT !.merged[n][2] = range[2]]
        ELSE [st EXCEPT !.merged = Append(st.merged, range)]

\* variant: every range is merged into the last one
MergeStepAlways(st, range) ==
    LET n == Len(st.merged)
    IN  IF n > 0
        THEN [st EXCEPT !.merged[n][2] = Max(st.merged[n][2], range[2])]
        ELSE [st EXCEPT !.merged = Append(st.merged, range)]

\* if (last && range[0] <= last[1] + 1) last[1] = Math.max(last[1], range[1]);
\* else mergedHighlights.push([...range]);
MergeStep(st, range) ==
    LET n == Len(st.merged)
        k == st.seen + 1
    IN  IF n > 0 /\ range[1] <= st.merged[n][2] + 1
        THEN [WriteEnd(st, n, Max(st.merged[n][2], range[2]))
                 EXCEPT !.seen = k]
        ELSE [st EXCEPT !.merged = Append(st.merged, range),
                        !.owner  = Append(st.owner, CopyRange(k)),
                        !.seen   = k]

RECURSIVE MergeFrom(_, _, _)
MergeFrom(sorted, i, st) ==
    IF i > Len(sorted) \/ st.error # "none" THEN st
    ELSE MergeFrom(sorted, i + 1, MergeStep(st, sorted[i]))

MergeRanges(sorted) ==
    MergeFrom(sorted, 1, [merged |-> <<>>, error |-> "none",
                          owner |-> <<>>, seen |-> 0, input |-> sorted])

\* where the stable sort puts the caller's k-th range
SortedPos(hs, k) ==
    Cardinality({j \in 1..Len(hs) :
                    \/ hs[j][1] < hs[k][1]
                    \/ (hs[j][1] = hs[k][1] /\ j <= k)})

\* the caller's list after the call: the list itself is never written (the
\* sort works on the copy), its arrays hold what the loop left in them
CallerRanges(hs, input) == [k \in 1..Len(hs) |-> input[SortedPos(hs, k)]]

----------------------------------------------------------------------------
(* Segments.  kind is "plain" (<span>) or "highlighted" (<mark>), content  *)
(* is the child string; from and to record the arguments of the slice call *)
(* that produced the content (to is exclusive).                            *)

Segment(kind, s, from, to) ==
    [kind |-> kind, content |-> Slice(s, from, to), from |-> from, to |-> to]

\* variant: the text before a match is not emitted
EmitStepNoGap(s, st, range) ==
    [parts     |-> Append(st.parts,
                          Segment("highlighted", s, range[1], range[2] + 1)),
     lastIndex |-> range[2] + 1]

\* one iteration of mergedHighlights.forEach
EmitStep(s, st, range) ==
    LET start  == range[1]
        end    == range[2]
        before == IF start > st.lastIndex
                  THEN Append(st.parts,
                              Segment("plain", s, st.lastIndex, start))
                  ELSE st.parts
    IN  [parts     |-> Append(before, Segment("highlighted", s, start, end + 1)),
         lastIndex |-> end + 1]

RECURSIVE EmitFrom(_, _, _, _)
EmitFrom(s, merged, i, st) ==
    IF i > Len(merged) THEN st
    ELSE EmitFrom(s, merged, i + 1, EmitStep(s, st, merged[i]))

\* variant: the text after the last match is not emitted
EmitRestNever(s, st) == st.parts

\* variant: `lastIndex <= text.length`
EmitRestOffByOne(s, st) ==
    IF st.lastIndex <= Len(s)
    THEN Append(st.parts, Segment("plain", s, st.lastIndex, Len(s)))
    ELSE st.parts

\* the remaining non-highlighted text: text.slice(lastIndex), whose end
\* defaults to text.length
EmitRest(s, st) ==
    IF st.lastIndex < Len(s)
    THEN Append(st.parts, Segment("plain", s, st.lastIndex, Len(s)))
    ELSE st.parts

\* variant: no early return, the empty list goes through the emit path
PlainOnlyViaParts(s) == EmitRest(s, [parts |-> <<>>, lastIndex |-> 0])

\* the early return: the text itself is the only child
PlainOnly(s) ==
    <<[kind |-> "plain", content |-> s, from |-> 0, to |-> Len(s)]>>

----------------------------------------------------------------------------
(* Inputs *)

\* a text of n code units: either all distinct ("abc...") or all equal
DistinctText(n) == [i \in 1..n |-> 96 + i]

UniformText(n) == [i \in 1..n |-> 97]

Texts(maxLen) == UNION {{DistinctText(n), UniformText(n)} : n \in 0..maxLen}

\* ranges that satisfy 0 <= start <= end < length
ValidRanges(n) == {r \in (0..(n - 1)) \X (0..(n - 1)) : r[1] <= r[2]}

\* every pair of offsets within Slack of 0 .. length
AnyRanges(n) == ((0 - Slack)..(n + Slack)) \X ((0 - Slack)..(n + Slack))

Lists(S, maxRanges) == UNION {[1..k -> S] : k \in 0..maxRanges}

TypeOK ==
    /\ pc \in {"call", "returned", "threw"}
    /\ highlightsDefined \in BOOLEAN
    /\ error \in {"none", "TypeError"}

\* a component that is not mounted (command not run) in a specification
Unused == [mounted |-> FALSE]

InitLocals ==
    /\ pc = "call"
    /\ sortedHighlights = <<>>
    /\ mergedHighlights = <<>>
    /\ parts = <<>>
    /\ lastIndex = 0
    /\ error = "none"

\* valid ranges only (the HighlightRange invariant holds), or no highlights
Init ==
    /\ text \in Texts(MaxLen)
    /\ highlightsDefined \in BOOLEAN
    /\ highlights \in Lists(ValidRanges(Len(text)), MaxRanges)
    /\ highlightsDefined = FALSE => highlights = <<>>
    /\ InitLocals
    /\ palette = Unused
    /\ clipboard = Unused
    /\ exportsCheck = Unused
    /\ cli = Unused

\* arbitrary ranges: inverted, negative, beyond the end of the text
InitAny ==
    /\ text \in Texts(MaxLenAny)
    /\ highlightsDefined \in BOOLEAN
    /\ highlights \in Lists(AnyRanges(Len(text)), MaxRangesAny)
    /\ highlightsDefined = FALSE => highlights = <<>>
    /\ InitLocals
    /\ palette = Unused
    /\ clipboard = Unused
    /\ exportsCheck = Unused
    /\ cli = Unused

\* HighlightedText is not rendered
NoHighlightedText ==
    /\ text = <<>>
    /\ highlights = <<>>
    /\ highlightsDefined = FALSE
    /\ InitLocals

----------------------------------------------------------------------------
(* The call, one action per return path *)

\* if (!highlights || highlights.length === 0) return <span>{text}</span>
ReturnPlain ==
    /\ pc = "call"
    /\ (~highlightsDefined \/ Len(highlights) = 0)
    /\ parts' = PlainOnly(text)
    /\ pc' = "returned"
    /\ UNCHANGED <<text, highlights, highlightsDefined, sortedHighlights,
                   mergedHighlights, lastIndex, error>>
    /\ UNCHANGED <<palette, clipboard, exportsCheck, cli>>

\* sort, merge, emit, return <span>{parts}</span>
RenderParts ==
    /\ pc = "call"
    /\ ~(~highlightsDefined \/ Len(highlights) = 0)
    /\ LET sorted == SortByStart(highlights)
           m      == MergeRanges(sorted)
           e      == EmitFrom(text, m.merged, 1,
                              [parts |-> <<>>, lastIndex |-> 0])
       IN  /\ sortedHighlights' = sorted
           /\ mergedHighlights' = m.merged
           /\ error' = m.error
           /\ IF m.error = "none"
              THEN /\ parts' = EmitRest(text, e)
                   /\ lastIndex' = e.lastIndex
                   /\ pc' = "returned"
              ELSE /\ parts' = <<>>
                   /\ lastIndex' = 0
                   /\ pc' = "threw"
           /\ highlights' = CallerRanges(highlights, m.input)
    /\ UNCHANGED <<text, highlightsDefined>>
    /\ UNCHANGED <<palette, clipboard, exportsCheck, cli>>

Next == ReturnPlain \/ RenderParts

Spec == Init /\ [][Next]_vars

SpecAny == InitAny /\ [][Next]_vars

\* most characters and most ranges of a call compared with its reorderings
MaxLenPerm == 4

MaxRangesPerm == 2

\* valid ranges or no highlights, small enough to try every reordering
InitPerm ==
    /\ text \in Texts(MaxLenPerm)
    /\ highlightsDefined \in BOOLEAN
    /\ highlights \in Lists(ValidRanges(Len(text)), MaxRangesPerm)
    /\ highlightsDefined = FALSE => highlights = <<>>
    /\ InitLocals
    /\ palette = Unused
    /\ clipboard = Unused
    /\ exportsCheck = Unused
    /\ cli = Unused

SpecPerm == InitPerm /\ [][Next]_vars

\* the children a call HighlightedText({text: s, highlights: hs}) returns
\* when no range makes it throw
HighlightedTextParts(s, hs) ==
    IF Len(hs) = 0 THEN PlainOnly(s)
    ELSE LET m == MergeRanges(SortByStart(hs))
         IN  EmitRest(s, EmitFrom(s, m.merged, 1,
                                  [parts |-> <<>>, lastIndex |-> 0]))

----------------------------------------------------------------------------
(* CommandPalette: the Input's keydown handler, the Panel's Cmd/Ctrl+Enter *)
(* handler, the Dialog's close and backdrop handlers.                      *)
(*                                                                         *)
(* palette holds the props (TRUE = the callback is provided), the Panel's  *)
(* highlightedIndexRef, the event last handled, and the calls made to the  *)
(* consumer's callbacks, in order.                                         *)

\* most events (key presses, highlights, clicks) delivered to one palette
MaxEvents == 3
\* most selectable items in the panel
MaxItems == 2

\* the items a, a + 1, ..., b
ItemRun(a, b) == [i \in 1..(b - a + 1) |-> a + i - 1]

\* the items prop: no group, one group, or two groups of items 1, 2, ...
ItemGroups ==
    {<<>>}
    \cup {<<ItemRun(1, k)>> : k \in 1..MaxItems}
    \cup {<<ItemRun(1, ak[1]), ItemRun(ak[1] + 1, ak[2])>> :
              ak \in {x \in (1..MaxItems) \X (1..MaxItems) : x[1] < x[2]}}

\* getSelectableItems as documented: (groups) => groups.flatMap((g) => g.items)
RECURSIVE GetSelectableItems(_)
GetSelectableItems(groups) ==
    IF groups = <<>> THEN <<>>
    ELSE groups[1] \o GetSelectableItems(Tail(groups))

Keys == {"Enter", "Escape", "ArrowDown"}

KeyboardEvent(key, metaKey, ctrlKey) ==
    [key |-> key, metaKey |-> metaKey, ctrlKey |-> ctrlKey,
     defaultPrevented |-> FALSE]

\* e.preventDefault()
PreventDefault(p) == [p EXCEPT !.event.defaultPrevented = TRUE]

\* Dialog.handleClose: onOpenChange(false)
HandleClose(p) ==
    [p EXCEPT !.onOpenChangeCalls = Append(@, FALSE)]

\* variant: the backdrop click always closes as well
HandleBackdropClickAlsoCloses(p) ==
    IF p.onBackdropClick
    THEN [p EXCEPT !.onBackdropClickCalls = @ + 1,
                   !.onOpenChangeCalls = Append(@, FALSE)]
    ELSE [p EXCEPT !.onOpenChangeCalls = Append(@, FALSE)]

\* Dialog.handleBackdropClick
HandleBackdropClick(p) ==
    IF p.onBackdropClick
    THEN [p EXCEPT !.onBackdropClickCalls = @ + 1]
    ELSE [p EXCEPT !.onOpenChangeCalls = Append(@, FALSE)]

\* Panel.handleItemHighlighted
HandleItemHighlighted(p, index) ==
    [p EXCEPT !.highlightedIndexRef = index]

\* selectableItems[highlightedIndexRef.current]; <<>> stands for undefined
HighlightedItemOf(p) ==
    LET selectableItems == GetSelectableItems(p.items)
        i == p.highlightedIndexRef
    IN  IF i >= 0 /\ i < Len(selectableItems)
        THEN <<selectableItems[i + 1]>>
        ELSE <<>>

\* variant: only metaKey counts as the modifier
HandleInputKeyDownMetaOnly(p) ==
    LET e == p.event
        highlightedItem == HighlightedItemOf(p)
    IN  IF e.key = "Enter" /\ e.metaKey /\ p.onSelect /\ p.getSelectableItems
           /\ highlightedItem # <<>>
        THEN [PreventDefault(p) EXCEPT
                 !.onSelectCalls =
                     Append(@, [item |-> highlightedItem[1], newTab |-> TRUE])]
        ELSE p

\* Panel.handleInputKeyDown
HandleInputKeyDown(p) ==
    LET e == p.event
        isEnter == e.key = "Enter"
        withModifier == e.metaKey \/ e.ctrlKey
        highlightedItem == HighlightedItemOf(p)
    IN  IF isEnter /\ withModifier /\ p.onSelect /\ p.getSelectableItems
        THEN IF highlightedItem # <<>>
             THEN [PreventDefault(p) EXCEPT
                      !.onSelectCalls =
                          Append(@, [item |-> highlightedItem[1],
                                     newTab |-> TRUE])]
             ELSE p
        ELSE p

\* onInputKeyDown?.(e): the Input is always rendered inside a Panel
OnInputKeyDown(p) ==
    HandleInputKeyDown([p EXCEPT !.onInputKeyDownCalls = @ + 1])

\* variant: no `return` after onClose()
HandleKeyDownFallsThrough(p, consumerPrevents) ==
    LET p1 == IF p.onKeyDownProp /\ consumerPrevents
              THEN PreventDefault(p) ELSE p
    IN  IF p1.event.defaultPrevented THEN p1
        ELSE IF p1.event.key = "Escape" /\ p1.inDialog
        THEN OnInputKeyDown(HandleClose(PreventDefault(p1)))
        ELSE OnInputKeyDown(p1)

\* PanelInput.handleKeyDown; consumerPrevents tells whether the consumer's
\* own onKeyDown, when there is one, calls e.preventDefault()
HandleKeyDown(p, consumerPrevents) ==
    LET p1 == IF p.onKeyDownProp /\ consumerPrevents
              THEN PreventDefault(p) ELSE p
    IN  IF p1.event.defaultPrevented THEN p1
        ELSE IF p1.event.key = "Escape" /\ p1.inDialog
        THEN HandleClose(PreventDefault(p1))
        ELSE OnInputKeyDown(p1)

PaletteInit ==
    /\ palette \in
          [mounted : {TRUE},
           onSelect : BOOLEAN,
           getSelectableItems : BOOLEAN,
           onKeyDownProp : BOOLEAN,
           onBackdropClick : BOOLEAN,
           inDialog : BOOLEAN,
           items : ItemGroups,
           highlightedIndexRef : {0 - 1},
           lastOp : {"none"},
           consumerPrevented : {FALSE},
           event : {KeyboardEvent("none", FALSE, FALSE)},
           events : {0},
           onSelectCalls : {<<>>},
           onOpenChangeCalls : {<<>>},
           onBackdropClickCalls : {0},
           onInputKeyDownCalls : {0}]
    /\ NoHighlightedText
    /\ clipboard = Unused
    /\ exportsCheck = Unused
    /\ cli = Unused

\* the autocomplete reports the highlighted index (-1: nothing highlighted)
ItemHighlighted ==
    /\ palette.mounted
    /\ palette.events < MaxEvents
    /\ \E index \in (0 - 1)..(MaxItems - 1) :
          palette' = [HandleItemHighlighted(palette, index) EXCEPT
                         !.lastOp = "highlight", !.events = @ + 1]
    /\ UNCHANGED <<highlightVars, clipboard, exportsCheck, cli>>

\* a key is pressed in CommandPalette.Input
KeyDown ==
    /\ palette.mounted
    /\ palette.events < MaxEvents
    /\ \E key \in Keys, metaKey \in BOOLEAN, ctrlKey \in BOOLEAN,
          consumerPrevents \in BOOLEAN :
          LET p0 == [palette EXCEPT
                        !.event = KeyboardEvent(key, metaKey, ctrlKey),
                        !.consumerPrevented =
                            palette.onKeyDownProp /\ consumerPrevents,
                        !.lastOp = "keydown",
                        !.events = @ + 1]
          IN  palette' = HandleKeyDown(p0, consumerPrevents)
    /\ UNCHANGED <<highlightVars, clipboard, exportsCheck, cli>>

\* the Dialog's backdrop is clicked
BackdropClick ==
    /\ palette.mounted
    /\ palette.inDialog
    /\ palette.events < MaxEvents
    /\ palette' = [HandleBackdropClick(palette) EXCEPT
                      !.lastOp = "backdrop", !.events = @ + 1]
    /\ UNCHANGED <<highlightVars, clipboard, exportsCheck, cli>>

PaletteNext == ItemHighlighted \/ KeyDown \/ BackdropClick

SpecPalette == PaletteInit /\ [][PaletteNext]_vars

----------------------------------------------------------------------------
(* ClipboardText: the copy button's click handler copyToClipboard, an      *)
(* async function with one await, and the timer that clears `copied`.      *)
(*                                                                         *)
(* clipboard holds the environment (is navigator.clipboard.writeText a     *)
(* function, is there a document), the onCopy prop ("absent", "returns" or *)
(* "throws"), the `copied` state, and one record per click: where that     *)
(* call of copyToClipboard stands, whether it put the text on the system   *)
(* clipboard, how often it called onCopy, whether it logged a warning.     *)

\* most clicks on the copy button
MaxClicks == 2

OnCopyKinds == {"absent", "returns", "throws"}

\* what navigator.clipboard.writeText(text) settles to
WriteTextOutcomes == {"resolves", "rejects"}

\* document.execCommand("copy"): returns true when it copied, returns false
\* when the command is unsupported or disabled, or throws
ExecCommandOutcomes == {"true", "false", "throws"}

NewCall == [pc |-> "started", textCopied |-> FALSE, onCopyCalls |-> 0,
            warned |-> FALSE, threw |-> FALSE]

\* onCopy?.() in call c; c.threw tells whether it raised
CallOnCopy(c, onCopy) ==
    IF onCopy = "absent" THEN [c EXCEPT !.threw = FALSE]
    ELSE [c EXCEPT !.onCopyCalls = @ + 1, !.threw = (onCopy = "throws")]

\* setCopied(true); st.cb is the component, st.call the running call of
\* copyToClipboard
SetCopied(st) == [st EXCEPT !.cb.copied = TRUE]

\* the manual fallback: a hidden textarea and document.execCommand("copy");
\* whatever the inner try raises is caught and logged
ManualFallback(st, exec) ==
    IF ~st.cb.hasDocument
    THEN [st EXCEPT !.call.pc = "done"]
    ELSE IF exec = "throws"
    THEN [st EXCEPT !.call.pc = "done", !.call.warned = TRUE]
    ELSE LET c0 == [st.call EXCEPT
                       !.textCopied = st.call.textCopied \/ exec = "true"]
             c1 == CallOnCopy(c0, st.cb.onCopy)
         IN  [SetCopied(st) EXCEPT
                 !.call = [c1 EXCEPT !.pc = "done",
                                     !.warned = c1.threw,
                                     !.threw = FALSE]]

\* from the click to the await, or through the fallback when there is no
\* async clipboard
StartCopy(st, exec) ==
    IF st.cb.hasClipboard
    THEN [st EXCEPT !.call.pc = "awaiting"]
    ELSE ManualFallback(st, exec)

\* after the await: setCopied(true); onCopy?.(); return -- and the catch
\* that falls through to the manual fallback
ResumeCopy(st, written, exec) ==
    IF written = "rejects"
    THEN ManualFallback(st, exec)
    ELSE LET c1 == CallOnCopy([st.call EXCEPT !.textCopied = TRUE],
                              st.cb.onCopy)
             s1 == [SetCopied(st) EXCEPT !.call = c1]
         IN  IF c1.threw
             THEN ManualFallback([s1 EXCEPT !.call.threw = FALSE], exec)
             ELSE [s1 EXCEPT !.call.pc = "done"]

ClipboardInit ==
    /\ clipboard \in
          [mounted : {TRUE},
           hasClipboard : BOOLEAN,
           hasDocument : BOOLEAN,
           onCopy : OnCopyKinds,
           copied : {FALSE},
           calls : {<<>>}]
    /\ NoHighlightedText
    /\ palette = Unused
    /\ exportsCheck = Unused
    /\ cli = Unused

\* the copy button is clicked
ClickCopy ==
    /\ clipboard.mounted
    /\ Len(clipboard.calls) < MaxClicks
    /\ \E exec \in ExecCommandOutcomes :
          LET st == StartCopy([cb |-> clipboard, call |-> NewCall], exec)
          IN  clipboard' = [st.cb EXCEPT !.calls = Append(@, st.call)]
    /\ UNCHANGED <<highlightVars, palette, exportsCheck, cli>>

\* the promise of writeText settles and the call goes on to its end
WriteTextSettles ==
    /\ clipboard.mounted
    /\ \E i \in 1..Len(clipboard.calls) :
          /\ clipboard.calls[i].pc = "awaiting"
          /\ \E written \in WriteTextOutcomes, exec \in ExecCommandOutcomes :
                LET st == ResumeCopy([cb |-> clipboard,
                                      call |-> clipboard.calls[i]],
                                     written, exec)
                IN  clipboard' = [st.cb EXCEPT !.calls[i] = st.call]
    /\ UNCHANGED <<highlightVars, palette, exportsCheck, cli>>

\* the 1100 ms timer of the effect fires: setCopied(false)
CopiedTimeout ==
    /\ clipboard.mounted
    /\ clipboard.copied
    /\ clipboard' = [clipboard EXCEPT !.copied = FALSE]
    /\ UNCHANGED <<highlightVars, palette, exportsCheck, cli>>

ClipboardNext == ClickCopy \/ WriteTextSettles \/ CopiedTimeout

SpecClipboard == ClipboardInit /\ [][ClipboardNext]_vars

----------------------------------------------------------------------------
(* The primitives export tests ("Sync with base-ui"): do the re-exports of *)
(* src/primitives/index.ts match the exports of @base-ui/react?            *)
(*                                                                         *)
(* A string is a sequence of pieces: "./", "@base-ui/react/" and the other *)
(* fixed texts are one piece each, a name is one piece or, where one name  *)
(* begins with another, the shorter name followed by the rest ("menu",     *)
(* "bar").  Substring search on the pieces then finds what it finds on the *)
(* characters.                                                             *)

\* most `export * from` lines in the primitives source
MaxBarrelLines == 2

\* export names of @base-ui/react
NameMenu == <<"menu">>

NameMenubar == <<"menu", "bar">>

NameTabs == <<"tabs">>

NameTypes == <<"types">>

\* a name @base-ui/react does not export (any more)
NameLegacy == <<"legacy">>

\* "./" + name
Key(name) == <<"./">> \o name

\* the keys a package.json `exports` of @base-ui/react may hold, in file
\* order; "." is the root export
KeyUniverse == <<<<".">>, Key(NameMenu), Key(NameMenubar), Key(NameTabs),
                 Key(NameTypes)>>

\* Object.keys(baseUiPackage.exports || {}) for the chosen subset of keys
RECURSIVE KeysOf(_, _)
KeysOf(chosen, i) ==
    IF i > Len(KeyUniverse) THEN <<>>
    ELSE (IF i \in chosen THEN <<KeyUniverse[i]>> ELSE <<>>)
             \o KeysOf(chosen, i + 1)

BarrelNames == {NameMenu, NameMenubar, NameTabs, NameTypes, NameLegacy}

EXCLUDED_EXPORTS ==
    {<<"./", "package.json">>, <<"./", "types">>, <<"./", "esm">>,
     <<"./", "unstable-no-ssr">>, <<"./", "unstable-use-media-query">>,
     <<"./", "merge-props">>, <<"./", "use-render">>}

\* one line of src/primitives/index.ts
BarrelLine(name) ==
    <<"export * from \"", "@base-ui/react/">> \o name \o <<"\";", "\n">>

\* readFileSync(primitivesSourcePath, "utf-8")
RECURSIVE PrimitivesSource(_)
PrimitivesSource(names) ==
    IF names = <<>> THEN <<>>
    ELSE BarrelLine(names[1]) \o PrimitivesSource(Tail(names))

\* String.prototype.startsWith
StartsWith(str, prefix) ==
    Len(str) >= Len(prefix) /\ SubSeq(str, 1, Len(prefix)) = prefix

\* String.prototype.includes
Includes(str, needle) ==
    \E i \in 1..(Len(str) - Len(needle) + 1) :
        SubSeq(str, i, i + Len(needle) - 1) = needle

\* key.replace("./", ""): the first "./" is removed
RECURSIVE RemoveFirstDotSlash(_)
RemoveFirstDotSlash(str) ==
    IF str = <<>> THEN <<>>
    ELSE IF str[1] = "./" THEN Tail(str)
    ELSE <<str[1]>> \o RemoveFirstDotSlash(Tail(str))

KeepNotExcluded(key) == StartsWith(key, <<"./">>) /\ key \notin EXCLUDED_EXPORTS

KeepDotSlash(key) == StartsWith(key, <<"./">>)

RECURSIVE MapRemoveDotSlash(_)
MapRemoveDotSlash(keys) ==
    IF keys = <<>> THEN <<>>
    ELSE <<RemoveFirstDotSlash(keys[1])>> \o MapRemoveDotSlash(Tail(keys))

\* baseUiExports of the completeness test
NonExcludedExports(keys) == MapRemoveDotSlash(SelectSeq(keys, KeepNotExcluded))

\* variant: the stale test filters the excluded keys as well
AllDotSlashExportsExcluding(keys) ==
    MapRemoveDotSlash(SelectSeq(keys, KeepNotExcluded))

\* baseUiExports of the stale test (a Set there, its members here)
AllDotSlashExports(keys) == MapRemoveDotSlash(SelectSeq(keys, KeepDotSlash))

\* the loop of the completeness test: the names whose expected import is
\* not a substring of the source
RECURSIVE MissingExports(_, _)
MissingExports(baseUiExports, primitivesSource) ==
    IF baseUiExports = <<>> THEN <<>>
    ELSE LET exportName == baseUiExports[1]
             expectedImport == <<"@base-ui/react/">> \o exportName
         IN  (IF ~Includes(primitivesSource, expectedImport)
              THEN <<exportName>> ELSE <<>>)
                 \o MissingExports(Tail(baseUiExports), primitivesSource)

\* [^"]+ from position i: the pieces up to the next one that holds a quote
RECURSIVE UpToQuote(_, _)
UpToQuote(str, i) ==
    IF i > Len(str) \/ str[i] \in {"\";", "export * from \""} THEN <<>>
    ELSE <<str[i]>> \o UpToQuote(str, i + 1)

\* the exec loop of /export \* from "@base-ui\/react\/([^"]+)"/g
RECURSIVE PrimitivesExports(_, _)
PrimitivesExports(str, i) ==
    IF i + 1 > Len(str) THEN <<>>
    ELSE IF str[i] = "export * from \"" /\ str[i + 1] = "@base-ui/react/"
    THEN LET m == UpToQuote(str, i + 2)
         IN  IF m # <<>> /\ i + 2 + Len(m) <= Len(str)
                /\ str[i + 2 + Len(m)] = "\";"
             THEN <<m>> \o PrimitivesExports(str, i + 3 + Len(m))
             ELSE PrimitivesExports(str, i + 1)
    ELSE PrimitivesExports(str, i + 1)

\* primitivesExports.filter((exp) => !baseUiExports.has(exp))
RECURSIVE StaleExports(_, _)
StaleExports(primitivesExports, baseUiExports) ==
    IF primitivesExports = <<>> THEN <<>>
    ELSE (IF \E k \in 1..Len(baseUiExports) :
                 baseUiExports[k] = primitivesExports[1]
          THEN <<>> ELSE <<primitivesExports[1]>>)
             \o StaleExports(Tail(primitivesExports), baseUiExports)

NotRun == [ran |-> FALSE, reported |-> <<>>, passed |-> FALSE]

\* expect(list).toEqual([])
TestResult(list) == [ran |-> TRUE, reported |-> list, passed |-> list = <<>>]

ExportsInit ==
    /\ \E chosen \in SUBSET (1..Len(KeyUniverse)) :
       \E names \in Lists(BarrelNames, MaxBarrelLines) :
          exportsCheck = [mounted |-> TRUE,
                          keys |-> KeysOf(chosen, 1),
                          barrel |-> names,
                          completeness |-> NotRun,
                          stale |-> NotRun]
    /\ NoHighlightedText
    /\ palette = Unused
    /\ clipboard = Unused
    /\ cli = Unused

\* it("should re-export all non-excluded base-ui exports")
RunCompletenessTest ==
    /\ exportsCheck.mounted
    /\ ~exportsCheck.completeness.ran
    /\ LET baseUiExports == NonExcludedExports(exportsCheck.keys)
           primitivesSource == PrimitivesSource(exportsCheck.barrel)
           missingExports == MissingExports(baseUiExports, primitivesSource)
       IN  exportsCheck' = [exportsCheck EXCEPT
                               !.completeness = TestResult(missingExports)]
    /\ UNCHANGED <<highlightVars, palette, clipboard, cli>>

\* it("should not have stale exports (exports removed from base-ui)")
RunStaleTest ==
    /\ exportsCheck.mounted
    /\ ~exportsCheck.stale.ran
    /\ LET baseUiExports == AllDotSlashExports(exportsCheck.keys)
           primitivesSource == PrimitivesSource(exportsCheck.barrel)
           primitivesExports == PrimitivesExports(primitivesSource, 1)
           staleExports == StaleExports(primitivesExports, baseUiExports)
       IN  exportsCheck' = [exportsCheck EXCEPT
                               !.stale = TestResult(staleExports)]
    /\ UNCHANGED <<highlightVars, palette, clipboard, cli>>

ExportsNext == RunCompletenessTest \/ RunStaleTest

SpecExports == ExportsInit /\ [][ExportsNext]_vars

----------------------------------------------------------------------------
(* `kumo blocks`: blocks() of command-line/commands/blocks.ts.             *)
(*                                                                         *)
(* A name, a category and a description are sequences of characters; a     *)
(* printed line is the sequence of the pieces of its template, the fixed   *)
(* texts being one piece each.                                             *)

\* most blocks in the registry
MaxBlocks == 3

\* UTF-16 code unit of the characters in use
CodeUnit(c) ==
    CASE c = "A" -> 65  [] c = "B" -> 66  [] c = "O" -> 79
      [] c = "a" -> 97  [] c = "b" -> 98  [] c = "d" -> 100
      [] c = "e" -> 101 [] c = "h" -> 104 [] c = "o" -> 111
      [] c = "p" -> 112 [] c = "r" -> 114 [] c = "t" -> 116

ToLowerCase(c) ==
    CASE c = "A" -> "a" [] c = "B" -> "b" [] c = "O" -> "o" [] OTHER -> c

\* the comparison of the default Array.prototype.sort: code units, left to
\* right, a proper prefix first; negative, zero or positive
RECURSIVE CompareCodeUnits(_, _)
CompareCodeUnits(s, t) ==
    IF s = <<>> /\ t = <<>> THEN 0
    ELSE IF s = <<>> THEN -1
    ELSE IF t = <<>> THEN 1
    ELSE IF CodeUnit(s[1]) # CodeUnit(t[1])
         THEN CodeUnit(s[1]) - CodeUnit(t[1])
    ELSE CompareCodeUnits(Tail(s), Tail(t))

\* the letters alone, case set aside
RECURSIVE ComparePrimary(_, _)
ComparePrimary(s, t) ==
    IF s = <<>> /\ t = <<>> THEN 0
    ELSE IF s = <<>> THEN -1
    ELSE IF t = <<>> THEN 1
    ELSE IF ToLowerCase(s[1]) # ToLowerCase(t[1])
         THEN CodeUnit(ToLowerCase(s[1])) - CodeUnit(ToLowerCase(t[1]))
    ELSE ComparePrimary(Tail(s), Tail(t))

\* equal letters: at the first difference of case the lower case is first
RECURSIVE CompareCase(_, _)
CompareCase(s, t) ==
    IF s = <<>> \/ t = <<>> THEN 0
    ELSE IF s[1] # t[1]
         THEN (IF ToLowerCase(s[1]) = s[1] THEN -1 ELSE 1)
    ELSE CompareCase(Tail(s), Tail(t))

\* String.prototype.localeCompare
LocaleCompare(s, t) ==
    IF ComparePrimary(s, t) # 0 THEN ComparePrimary(s, t)
    ELSE CompareCase(s, t)

Other == <<"O", "t", "h", "e", "r">>

\* variant: the category as it is in the registry
CategoryOfNoDefault(block) == block.category

\* block.category || "Other"
CategoryOf(block) == IF block.category = <<>> THEN Other ELSE block.category

\* the keys of byCategory in insertion order
RECURSIVE CategoryKeys(_, _)
CategoryKeys(blockList, keys) ==
    IF blockList = <<>> THEN keys
    ELSE LET category == CategoryOf(blockList[1])
         IN  CategoryKeys(Tail(blockList),
                          IF \E k \in 1..Len(keys) : keys[k] = category
                          THEN keys ELSE Append(keys, category))

\* byCategory.get(category)
CategoryGet(blockList, category) ==
    LET InCategory(block) == CategoryOf(block) = category
    IN  SelectSeq(blockList, InCategory)

RECURSIVE InsertCategory(_, _)
InsertCategory(sorted, c) ==
    IF sorted = <<>> THEN <<c>>
    ELSE IF CompareCodeUnits(sorted[Len(sorted)], c) <= 0 THEN Append(sorted, c)
    ELSE Append(InsertCategory(SubSeq(sorted, 1, Len(sorted) - 1), c),
                sorted[Len(sorted)])

\* [...byCategory.keys()].sort()
RECURSIVE SortCategories(_, _)
SortCategories(keys, acc) ==
    IF keys = <<>> THEN acc
    ELSE SortCategories(Tail(keys), InsertCategory(acc, keys[1]))

RECURSIVE InsertBlock(_, _)
InsertBlock(sorted, b) ==
    IF sorted = <<>> THEN <<b>>
    ELSE IF LocaleCompare(sorted[Len(sorted)].name, b.name) <= 0
         THEN Append(sorted, b)
    ELSE Append(InsertBlock(SubSeq(sorted, 1, Len(sorted) - 1), b),
                sorted[Len(sorted)])

\* [...blocks].sort((a, b) => a.name.localeCompare(b.name))
RECURSIVE SortBlocks(_, _)
SortBlocks(categoryBlocks, acc) ==
    IF categoryBlocks = <<>> THEN acc
    ELSE SortBlocks(Tail(categoryBlocks), InsertBlock(acc, categoryBlocks[1]))

\* `Kumo Blocks (${blockList.length} total)\n`
HeaderLine(n) == <<"Kumo Blocks (", ToString(n), " total)", "\n">>

\* `${category}:`
CategoryLine(category) == category \o <<":">>

\* `  ${block.name} - ${block.description}`
BlockLine(block) == <<"  ">> \o block.name \o <<" - ">> \o block.description

RECURSIVE BlockLines(_)
BlockLines(categoryBlocks) ==
    IF categoryBlocks = <<>> THEN <<>>
    ELSE <<BlockLine(categoryBlocks[1])>> \o BlockLines(Tail(categoryBlocks))

\* the loop over sortedCategories: a category line, its blocks, an empty line
RECURSIVE CategorySections(_, _)
CategorySections(sortedCategories, blockList) ==
    IF sortedCategories = <<>> THEN <<>>
    ELSE LET category == sortedCategories[1]
             categoryBlocks == SortBlocks(CategoryGet(blockList, category), <<>>)
         IN  <<CategoryLine(category)>> \o BlockLines(categoryBlocks) \o <<<<>>>>
                 \o CategorySections(Tail(sortedCategories), blockList)

InstallHint ==
    <<<<"To install a block, run:">>, <<"  kumo add <block-name>\n">>,
      <<"Example:">>, <<"  kumo add PageHeader">>>>

\* what a call with a loaded registry of at least one block prints
Listing(blockList) ==
    LET sortedCategories == SortCategories(CategoryKeys(blockList, <<>>), <<>>)
    IN  <<HeaderLine(Len(blockList))>>
            \o CategorySections(sortedCategories, blockList)
            \o InstallHint

\* the message of console.error; the command stands between backquotes there
RegistryNotFound ==
    <<"Error: Component registry not found. Run ", "pnpm codegen:registry",
      " first.">>

\* what readFileSync and JSON.parse of loadRegistry may do
LoadOutcomes == {"loaded", "ENOENT", "EACCES", "SyntaxError"}

BlockNames == {<<"a">>, <<"A">>, <<"B">>}

BlockCategories == {<<>>, Other, <<"a", "p", "p">>}

BlockDescriptions == {<<"d">>, <<"e">>}

Blocks == [name : BlockNames, category : BlockCategories,
           description : BlockDescriptions]

NewProcess(load, hasBlocks, blockList) ==
    [mounted |-> TRUE, load |-> load, hasBlocks |-> hasBlocks,
     blocks |-> blockList, status |-> "start",
     stdout |-> <<>>, stderr |-> <<>>]

CliInit ==
    /\ \/ \E load \in LoadOutcomes \ {"loaded"} :
             cli = NewProcess(load, FALSE, <<>>)
       \/ cli = NewProcess("loaded", FALSE, <<>>)
       \/ \E blockList \in Lists(Blocks, MaxBlocks) :
             cli = NewProcess("loaded", TRUE, blockList)
    /\ NoHighlightedText
    /\ palette = Unused
    /\ clipboard = Unused
    /\ exportsCheck = Unused

\* variant: the catch block exits on every error
RunBlocksExitOnAnyError(p) ==
    IF p.load # "loaded"
    THEN [p EXCEPT !.stderr = <<RegistryNotFound>>, !.status = "exit 1"]
    ELSE IF ~p.hasBlocks \/ p.blocks = <<>>
    THEN [p EXCEPT !.stdout = <<<<"No blocks available.">>>>,
                   !.status = "returned"]
    ELSE [p EXCEPT !.stdout = Listing(p.blocks), !.status = "returned"]

\* blocks()
RunBlocks(p) ==
    IF p.load = "ENOENT"
    THEN [p EXCEPT !.stderr = <<RegistryNotFound>>, !.status = "exit 1"]
    ELSE IF p.load # "loaded"
    THEN [p EXCEPT !.status = "threw"]
    ELSE IF ~p.hasBlocks \/ p.blocks = <<>>
    THEN [p EXCEPT !.stdout = <<<<"No blocks available.">>>>,
                   !.status = "returned"]
    ELSE [p EXCEPT !.stdout = Listing(p.blocks), !.status = "returned"]

BlocksCommand ==
    /\ cli.mounted
    /\ cli.status = "start"
    /\ cli' = RunBlocks(cli)
    /\ UNCHANGED <<highlightVars, palette, clipboard, exportsCheck>>

CliNext == BlocksCommand

SpecCli == CliInit /\ [][CliNext]_vars

----------------------------------------------------------------------------
(* Vocabulary of the properties *)

RECURSIVE ConcatContents(_)
ConcatContents(ps) ==
    IF ps = <<>> THEN <<>>
    ELSE ps[1].content \o ConcatContents(Tail(ps))

IsHighlighted(p) == p.kind = "highlighted"

HighlightedParts == SelectSeq(parts, IsHighlighted)

\* the HighlightRange invariant: 0 <= start <= end < text.length
IsValid(r) == 0 <= r[1] /\ r[1] <= r[2] /\ r[2] < Len(text)

AllValid == \A i \in 1..Len(highlights) : IsValid(highlights[i])

\* a range that is neither inverted nor starts before the text
IsForward(r) == 0 <= r[1] /\ r[1] <= r[2]

AllForward == \A i \in 1..Len(highlights) : IsForward(highlights[i])

\* the call took the sort / merge / emit path and returned
Rendered == pc = "returned" /\ highlightsDefined /\ Len(highlights) > 0

\* the characters text[from], ..., text[to - 1] (0-based, to exclusive)
Chars(from, to) == SubSeq(text, from + 1, to)

\* segment p is highlighted and spans exactly the indices start .. end
MarksExactly(p, start, end) ==
    /\ p.kind = "highlighted"
    /\ p.from = start
    /\ p.to = end + 1
    /\ p.content = Chars(start, end + 1)

\* the list is in ascending order of start
SortedByStart ==
    \A i \in 1..(Len(highlights) - 1) : highlights[i][1] <= highlights[i + 1][1]

\* no index lies in two ranges of the list
PairwiseDisjoint ==
    \A i, j \in 1..Len(highlights) :
        i # j => \/ highlights[i][2] < highlights[j][1]
                 \/ highlights[j][2] < highlights[i][1]

\* every range starts more than one index after the end of the one before
Separated ==
    \A i \in 1..(Len(highlights) - 1) :
        highlights[i + 1][1] > highlights[i][2] + 1

\* every index of the text lies in some range of the list
CoversText ==
    \A x \in 0..(Len(text) - 1) :
        \E i \in 1..Len(highlights) :
            highlights[i][1] <= x /\ x <= highlights[i][2]

\* some range of the list breaks the HighlightRange invariant
SomeMalformed == \E i \in 1..Len(highlights) : ~IsValid(highlights[i])

\* c is a contiguous, possibly empty, piece of the text
IsPieceOfText(c) ==
    \E from \in 0..Len(text) : \E to \in from..Len(text) : c = Chars(from, to)

\* a step of a call with a malformed range returns well-formed segments
MalformedCallReturns ==
    (pc = "call" /\ highlightsDefined /\ SomeMalformed) =>
        /\ pc' = "returned"
        /\ error' = "none"
        /\ Len(parts') >= 1
        /\ \A k \in 1..Len(parts') :
              /\ parts'[k].kind \in {"plain", "highlighted"}
              /\ IsPieceOfText(parts'[k].content)

----------------------------------------------------------------------------
(* C1 as stated: for every input, inverted and out-of-bounds ranges        *)
(* included, the segment contents concatenated in order equal the text.    *)
C1_CoverageAllInputs ==
    pc = "returned" => ConcatContents(parts) = text

(* C1, amended: the segment contents concatenated in order equal the text  *)
(* whenever highlights is absent or empty, or every range has              *)
(* 0 <= start <= end (ranges may overlap, be unsorted, and start or end    *)
(* beyond the end of the text).                                            *)
C1_Coverage ==
    (pc = "returned" /\ AllForward) => ConcatContents(parts) = text

C1_Witness ==
    /\ Rendered
    /\ AllForward
    /\ Len(highlights) = 2
    /\ highlights[1][1] > highlights[2][1]
    /\ highlights[2][2] >= highlights[1][1]
    /\ highlights[1][2] >= Len(text)
    /\ Len(parts) = 2
    /\ ConcatContents(parts) = text

----------------------------------------------------------------------------
(* C2: for a non-empty list of valid ranges the segments tile the text:    *)
(* the first starts at index 0, each starts where the previous one ended,  *)
(* the last ends at text.length, and each holds exactly its own indices.   *)
C2_Tiling ==
    (Rendered /\ AllValid) =>
        /\ Len(parts) >= 1
        /\ parts[1].from = 0
        /\ parts[Len(parts)].to = Len(text)
        /\ \A i \in 1..Len(parts) :
              /\ parts[i].from <= parts[i].to
              /\ parts[i].content = Chars(parts[i].from, parts[i].to)
        /\ \A i \in 1..(Len(parts) - 1) : parts[i + 1].from = parts[i].to

C2_Witness ==
    /\ Rendered
    /\ AllValid
    /\ Len(parts) = 5
    /\ parts[1].kind = "plain"
    /\ parts[5].kind = "plain"
    /\ parts[5].to = Len(text)

----------------------------------------------------------------------------
(* C3: with highlights undefined or empty the output is exactly one        *)
(* segment, it is plain, and its content is the whole text.                *)
C3_NoHighlights ==
    (pc = "returned" /\ (~highlightsDefined \/ Len(highlights) = 0)) =>
        /\ Len(parts) = 1
        /\ parts[1].kind = "plain"
        /\ parts[1].content = text

C3_Witness ==
    /\ pc = "returned"
    /\ ~highlightsDefined
    /\ Len(text) > 0
    /\ Len(parts) = 1
    /\ parts[1].content = text

----------------------------------------------------------------------------
(* C4: two valid ranges a, b with b.start = a.end + 1 are coalesced into   *)
(* the one range [a.start, b.end] and rendered as a single highlighted     *)
(* segment; in a longer list one highlighted segment still spans both.     *)
C4_AdjacencyMerge ==
    (Rendered /\ AllValid) =>
        \A i, j \in 1..Len(highlights) :
            highlights[j][1] = highlights[i][2] + 1 =>
                /\ \E k \in 1..Len(parts) :
                      /\ parts[k].kind = "highlighted"
                      /\ parts[k].from <= highlights[i][1]
                      /\ highlights[j][2] + 1 <= parts[k].to
                /\ Len(highlights) = 2 =>
                      /\ mergedHighlights =
                             <<<<highlights[i][1], highlights[j][2]>>>>
                      /\ Len(HighlightedParts) = 1
                      /\ MarksExactly(HighlightedParts[1],
                                      highlights[i][1], highlights[j][2])

C4_Witness ==
    /\ Rendered
    /\ highlights = <<<<0, 2>>, <<3, 5>>>>
    /\ Len(text) = 6
    /\ mergedHighlights = <<<<0, 5>>>>
    /\ Len(parts) = 1

----------------------------------------------------------------------------
(* C5: two valid ranges a, b with b.start > a.end + 1 stay two highlighted *)
(* segments, and the segment between them is plain and holds exactly the   *)
(* indices a.end + 1 .. b.start - 1.                                       *)
C5_NonAdjacency ==
    (Rendered /\ AllValid /\ Len(highlights) = 2) =>
        \A i, j \in 1..2 :
            highlights[j][1] > highlights[i][2] + 1 =>
                /\ mergedHighlights = <<highlights[i], highlights[j]>>
                /\ Len(HighlightedParts) = 2
                /\ \E k \in 1..(Len(parts) - 2) :
                      /\ MarksExactly(parts[k],
                                      highlights[i][1], highlights[i][2])
                      /\ parts[k + 1].kind = "plain"
                      /\ parts[k + 1].from = highlights[i][2] + 1
                      /\ parts[k + 1].to = highlights[j][1]
                      /\ parts[k + 1].content =
                             Chars(highlights[i][2] + 1, highlights[j][1])
                      /\ MarksExactly(parts[k + 2],
                                      highlights[j][1], highlights[j][2])

C5_Witness ==
    /\ Rendered
    /\ highlights = <<<<0, 2>>, <<4, 5>>>>
    /\ Len(text) = 6
    /\ Len(parts) = 3
    /\ parts[2].kind = "plain"
    /\ parts[2].content = Chars(3, 4)

----------------------------------------------------------------------------
(* C6: two valid ranges that share an index are coalesced into the single  *)
(* range [min of the starts, max of the ends], also when one range lies    *)
(* inside the other.                                                       *)
C6_OverlapMerge ==
    (Rendered /\ AllValid /\ Len(highlights) = 2) =>
        LET a == highlights[1]
            b == highlights[2]
        IN  Max(a[1], b[1]) <= Min(a[2], b[2]) =>
                mergedHighlights = <<<<Min(a[1], b[1]), Max(a[2], b[2])>>>>

C6_Witness ==
    /\ Rendered
    /\ highlights = <<<<1, 4>>, <<3, 5>>>>
    /\ Len(text) = 6
    /\ mergedHighlights = <<<<1, 5>>>>

----------------------------------------------------------------------------
(* C7 as stated: a list sorted by start whose ranges share no index is     *)
(* returned unchanged by the merge pass.                                   *)
C7_IdempotentOnDisjoint ==
    (Rendered /\ AllValid /\ SortedByStart /\ PairwiseDisjoint) =>
        mergedHighlights = highlights

(* C7, amended: a list sorted by start in which every range starts more    *)
(* than one index after the end of the previous range (disjoint and not    *)
(* adjacent) is returned unchanged by the merge pass.                      *)
C7_IdempotentOnSeparated ==
    (Rendered /\ AllValid /\ SortedByStart /\ Separated) =>
        mergedHighlights = highlights

C7_Witness ==
    /\ Rendered
    /\ AllValid
    /\ Len(highlights) >= 2
    /\ SortedByStart
    /\ Separated
    /\ mergedHighlights = highlights

----------------------------------------------------------------------------
(* C8: the merged list of valid ranges is ordered and minimal: starts      *)
(* strictly ascend and every merged range starts more than one index       *)
(* after the end of the one before it.                                     *)
C8_MergedMinimalOrdered ==
    (Rendered /\ AllValid) =>
        /\ Len(mergedHighlights) >= 1
        /\ \A i \in 1..(Len(mergedHighlights) - 1) :
              /\ mergedHighlights[i][1] < mergedHighlights[i + 1][1]
              /\ mergedHighlights[i + 1][1] > mergedHighlights[i][2] + 1

C8_Witness ==
    /\ Rendered
    /\ AllValid
    /\ Len(highlights) = 3
    /\ ~SortedByStart
    /\ Len(mergedHighlights) = 2

----------------------------------------------------------------------------
(* C9: when the valid ranges together cover every index of the text the    *)
(* output is exactly one highlighted segment equal to the whole text, with *)
(* no plain segment before or after it.                                    *)
C9_FullTextHighlight ==
    (Rendered /\ AllValid /\ CoversText) =>
        /\ Len(parts) = 1
        /\ parts[1].kind = "highlighted"
        /\ parts[1].content = text

C9_Witness ==
    /\ Rendered
    /\ AllValid
    /\ CoversText
    /\ Len(highlights) = 2
    /\ highlights[1][1] > 0
    /\ highlights[2][2] < Len(text) - 1
    /\ Len(parts) = 1
    /\ parts[1].content = text

----------------------------------------------------------------------------
(* C10: with a malformed range in the list (start > end, negative start,   *)
(* or end >= text.length) the call raises nothing: every call ends by      *)
(* returning, with no exception, and what it returns is a sequence of      *)
(* segments whose contents are (possibly empty) pieces of the text.        *)
C10_NoThrowOnMalformed == [][MalformedCallReturns]_vars

C10_Witness ==
    /\ pc = "returned"
    /\ highlightsDefined
    /\ Len(highlights) = 2
    /\ highlights[1][1] > highlights[1][2]
    /\ highlights[2][1] < 0
    /\ error = "none"
    /\ \E k \in 1..Len(parts) : parts[k].content = <<>>

----------------------------------------------------------------------------
(* C11: the call leaves its inputs as they were: the caller's highlights   *)
(* list has the same length and order and every range in it the same start *)
(* and end after the call, also when ranges were merged; text is not       *)
(* changed either.                                                         *)
C11_InputsUntouched ==
    [][/\ highlights' = highlights
       /\ highlightsDefined' = highlightsDefined
       /\ text' = text]_vars

C11_Witness ==
    /\ Rendered
    /\ Len(highlights) = 3
    /\ Len(mergedHighlights) = 1
    /\ SortByStart(highlights) = sortedHighlights
    /\ sortedHighlights # highlights
    /\ mergedHighlights[1][1] = sortedHighlights[1][1]
    /\ mergedHighlights[1][2] > sortedHighlights[1][2]

----------------------------------------------------------------------------
(* C12 as stated: for a zero-length text with a non-empty highlights list  *)
(* the output segment sequence is empty.                                   *)
C12_EmptyTextEmitsNothing ==
    (pc = "returned" /\ highlightsDefined /\ Len(highlights) > 0
        /\ Len(text) = 0) => parts = <<>>

----------------------------------------------------------------------------
(* Vocabulary of the command palette properties *)

\* this step is one keydown delivered to CommandPalette.Input
KeyDownStep ==
    palette'.lastOp = "keydown" /\ palette'.events = palette.events + 1

\* this step is one click on the Dialog's backdrop
BackdropStep ==
    palette'.lastOp = "backdrop" /\ palette'.events = palette.events + 1

\* the key pressed in this step is Enter with Cmd or Ctrl held
ModifiedEnter ==
    /\ palette'.event.key = "Enter"
    /\ (palette'.event.metaKey \/ palette'.event.ctrlKey)

\* the key pressed in this step is Enter alone
PlainEnter ==
    /\ palette'.event.key = "Enter"
    /\ ~palette'.event.metaKey
    /\ ~palette'.event.ctrlKey

\* before this step an item is highlighted and both callbacks are provided
CanSelect ==
    /\ palette.onSelect
    /\ palette.getSelectableItems
    /\ HighlightedItemOf(palette) # <<>>

\* this step calls onSelect exactly once, with the highlighted item
SelectsOnce(newTab) ==
    palette'.onSelectCalls =
        Append(palette.onSelectCalls,
               [item |-> HighlightedItemOf(palette)[1], newTab |-> newTab])

----------------------------------------------------------------------------
(* C13 as stated: with onSelect and getSelectableItems provided and an     *)
(* item highlighted, every keydown of Enter with metaKey or ctrlKey calls  *)
(* onSelect exactly once with that item and newTab: true and prevents the  *)
(* event's default.                                                        *)
C13_ModEnterAlwaysSelects ==
    [][(KeyDownStep /\ ModifiedEnter /\ CanSelect) =>
          (SelectsOnce(TRUE) /\ palette'.event.defaultPrevented)]_vars

(* C13, amended: the same, for a keydown that the consumer's own onKeyDown *)
(* handler (if one is passed to the Input) has not default-prevented.      *)
C13_ModEnterSelects ==
    [][(KeyDownStep /\ ModifiedEnter /\ CanSelect
           /\ ~palette'.consumerPrevented) =>
          (SelectsOnce(TRUE) /\ palette'.event.defaultPrevented)]_vars

C13_Witness ==
    /\ palette.mounted
    /\ palette.lastOp = "keydown"
    /\ palette.event.key = "Enter"
    /\ palette.event.ctrlKey
    /\ ~palette.event.metaKey
    /\ palette.event.defaultPrevented
    /\ palette.onKeyDownProp
    /\ ~palette.consumerPrevented
    /\ palette.highlightedIndexRef = 1
    /\ palette.onSelectCalls = <<[item |-> 2, newTab |-> TRUE]>>

----------------------------------------------------------------------------
(* C14 as stated: a keydown of Enter with neither metaKey nor ctrlKey,     *)
(* while an item is highlighted, results in onSelect being called with the *)
(* highlighted item and newTab: false.                                     *)
C14_PlainEnterSelects ==
    [][(KeyDownStep /\ PlainEnter /\ CanSelect
           /\ ~palette'.consumerPrevented) => SelectsOnce(FALSE)]_vars

----------------------------------------------------------------------------
(* C15: a keydown of Escape in an Input inside a Dialog, not default-      *)
(* prevented by the consumer's onKeyDown, calls onOpenChange(false),       *)
(* prevents the event's default, and does not reach the Panel's handler:   *)
(* onSelect is not called.                                                 *)
C15_EscapeCloses ==
    [][(KeyDownStep /\ palette'.event.key = "Escape" /\ palette.inDialog
           /\ ~palette'.consumerPrevented) =>
          /\ palette'.onOpenChangeCalls =
                 Append(palette.onOpenChangeCalls, FALSE)
          /\ palette'.event.defaultPrevented
          /\ palette'.onInputKeyDownCalls = palette.onInputKeyDownCalls
          /\ palette'.onSelectCalls = palette.onSelectCalls]_vars

C15_Witness ==
    /\ palette.mounted
    /\ palette.lastOp = "keydown"
    /\ palette.event.key = "Escape"
    /\ palette.event.metaKey
    /\ palette.event.defaultPrevented
    /\ palette.inDialog
    /\ palette.onKeyDownProp
    /\ ~palette.consumerPrevented
    /\ palette.onSelect
    /\ palette.getSelectableItems
    /\ HighlightedItemOf(palette) # <<>>
    /\ palette.onOpenChangeCalls = <<FALSE>>
    /\ palette.onInputKeyDownCalls = 0
    /\ palette.onSelectCalls = <<>>

----------------------------------------------------------------------------
(* C16: a backdrop click calls onBackdropClick and not onOpenChange when   *)
(* onBackdropClick is provided, and calls onOpenChange(false) when it is   *)
(* not.                                                                    *)
C16_BackdropDispatch ==
    [][BackdropStep =>
          IF palette.onBackdropClick
          THEN /\ palette'.onBackdropClickCalls =
                      palette.onBackdropClickCalls + 1
               /\ palette'.onOpenChangeCalls = palette.onOpenChangeCalls
          ELSE /\ palette'.onBackdropClickCalls = palette.onBackdropClickCalls
               /\ palette'.onOpenChangeCalls =
                      Append(palette.onOpenChangeCalls, FALSE)]_vars

C16_Witness ==
    /\ palette.mounted
    /\ palette.lastOp = "backdrop"
    /\ palette.onBackdropClick
    /\ palette.onBackdropClickCalls = 1
    /\ palette.onOpenChangeCalls = <<>>

----------------------------------------------------------------------------
(* C17 as stated: for every click of the copy button whose handler has     *)
(* run to its end, onCopy was invoked exactly once if the text was copied  *)
(* (by the async clipboard path or by the fallback path) and not at all if *)
(* both paths failed; it is never invoked more than once for one click.    *)
C17_OnCopyOncePerCopy ==
    (clipboard.mounted /\ clipboard.onCopy # "absent") =>
        \A i \in 1..Len(clipboard.calls) :
            LET c == clipboard.calls[i] IN
            /\ c.onCopyCalls <= 1
            /\ c.pc = "done" =>
                  c.onCopyCalls = (IF c.textCopied THEN 1 ELSE 0)

----------------------------------------------------------------------------
(* Vocabulary of the export test properties *)

\* the members of a list
Members(list) == {list[i] : i \in 1..Len(list)}

\* the names X with a non-excluded key "./X" in the exports of base-ui
RequiredNames ==
    {name \in {NameMenu, NameMenubar, NameTabs, NameTypes} :
        /\ Key(name) \in Members(exportsCheck.keys)
        /\ Key(name) \notin EXCLUDED_EXPORTS}

\* the names X with a key "./X" in the exports of base-ui
ExportedNames ==
    {name \in BarrelNames : Key(name) \in Members(exportsCheck.keys)}

\* the names X with a line `export * from "@base-ui/react/X"` in the source
ReExportedNames == Members(exportsCheck.barrel)

----------------------------------------------------------------------------
----------------------------------------------------------------------------
----------------------------------------------------------------------------
(* Vocabulary of the `kumo blocks` properties *)

\* the call listed a registry of at least one block
Listed ==
    /\ cli.mounted
    /\ cli.status = "returned"
    /\ cli.hasBlocks
    /\ cli.blocks # <<>>

IsCategoryLine(line) == Len(line) > 1 /\ line[Len(line)] = ":"

IsBlockLine(line) ==
    /\ Len(line) > 1
    /\ line[1] = "  "
    /\ \E k \in 2..Len(line) : line[k] = " - "

\* the name on a block line: what stands between "  " and " - "
NameOnLine(line) ==
    LET k == CHOOSE k \in 2..Len(line) :
                 line[k] = " - " /\ \A j \in 2..(k - 1) : line[j] # " - "
    IN  SubSeq(line, 2, k - 1)

\* the category a line of stdout stands under: that of the last category
\* line above it, <<>> when there is none
CategoryAbove(i) ==
    LET above == {j \in 1..(i - 1) : IsCategoryLine(cli.stdout[j])}
    IN  IF above = {} THEN <<>>
        ELSE LET j == CHOOSE j \in above : \A k \in above : k <= j
             IN  SubSeq(cli.stdout[j], 1, Len(cli.stdout[j]) - 1)

CategoryLines == {i \in 1..Len(cli.stdout) : IsCategoryLine(cli.stdout[i])}

PrintedBlockLines == {i \in 1..Len(cli.stdout) : IsBlockLine(cli.stdout[i])}

\* the category the claim expects a block under
ExpectedCategory(block) ==
    IF block.category = <<>> THEN <<"O", "t", "h", "e", "r">> ELSE block.category

\* the stdout lines that print this block under its category
PrintsOf(block) ==
    {i \in PrintedBlockLines :
        /\ cli.stdout[i] = <<"  ">> \o block.name \o <<" - ">> \o block.description
        /\ CategoryAbove(i) = ExpectedCategory(block)}

\* the registry entries equal to this block with the same category printed
SameAs(block) ==
    {k \in 1..Len(cli.blocks) :
        /\ cli.blocks[k].name = block.name
        /\ cli.blocks[k].description = block.description
        /\ ExpectedCategory(cli.blocks[k]) = ExpectedCategory(block)}

----------------------------------------------------------------------------
(* C20: for a registry with at least one block, blocks() prints every block *)
(* exactly once, under its own category ("Other" when the category is       *)
(* empty); the categories appear in ascending order, each once; the blocks  *)
(* of a category are ordered by name; the count of the header is the number *)
(* of blocks.                                                               *)
C20_ListingGrouped ==
    Listed =>
        /\ Cardinality(PrintedBlockLines) = Len(cli.blocks)
        /\ \A k \in 1..Len(cli.blocks) :
               Cardinality(PrintsOf(cli.blocks[k])) =
                   Cardinality(SameAs(cli.blocks[k]))
        /\ \A i, j \in CategoryLines :
               i < j => CompareCodeUnits(CategoryAbove(i + 1),
                                         CategoryAbove(j + 1)) < 0
        /\ \A i \in PrintedBlockLines :
               (i + 1) \in PrintedBlockLines =>
                   LocaleCompare(NameOnLine(cli.stdout[i]),
                                 NameOnLine(cli.stdout[i + 1])) <= 0
        /\ \A i \in PrintedBlockLines : CategoryAbove(i) # <<>>
        /\ cli.stdout[1] =
               <<"Kumo Blocks (", ToString(Len(cli.blocks)), " total)", "\n">>

C20_Witness ==
    /\ Listed
    /\ cli.blocks =
           <<[name |-> <<"B">>, category |-> <<>>, description |-> <<"d">>],
             [name |-> <<"a">>, category |-> <<"a", "p", "p">>,
              description |-> <<"d">>],
             [name |-> <<"a">>, category |-> <<>>, description |-> <<"e">>]>>
    /\ cli.stdout =
           <<<<"Kumo Blocks (", "3", " total)", "\n">>,
             <<"O", "t", "h", "e", "r", ":">>,
             <<"  ", "a", " - ", "e">>,
             <<"  ", "B", " - ", "d">>,
             <<>>,
             <<"a", "p", "p", ":">>,
             <<"  ", "a", " - ", "d">>,
             <<>>,
             <<"To install a block, run:">>,
             <<"  kumo add <block-name>\n">>,
             <<"Example:">>,
             <<"  kumo add PageHeader">>>>

----------------------------------------------------------------------------
(* C21: when reading the registry fails with ENOENT, blocks() prints the    *)
(* "Component registry not found" error, exits with code 1 and prints no    *)
(* listing; any other failure is rethrown and nothing exits; a registry     *)
(* with no blocks key or an empty blocks map prints only                    *)
(* "No blocks available.".                                                  *)
C21_ErrorOutcomes ==
    (cli.mounted /\ cli.status # "start") =>
        /\ cli.load = "ENOENT" =>
               /\ cli.status = "exit 1"
               /\ Len(cli.stderr) = 1
               /\ cli.stderr[1][1] = "Error: Component registry not found. Run "
               /\ cli.stdout = <<>>
        /\ cli.load \in {"EACCES", "SyntaxError"} =>
               /\ cli.status = "threw"
               /\ cli.stdout = <<>>
               /\ cli.stderr = <<>>
        /\ (cli.load = "loaded" /\ (~cli.hasBlocks \/ cli.blocks = <<>>)) =>
               /\ cli.status = "returned"
               /\ cli.stdout = <<<<"No blocks available.">>>>
               /\ cli.stderr = <<>>

C21_Witness ==
    /\ cli.mounted
    /\ cli.load = "SyntaxError"
    /\ cli.status = "threw"
    /\ cli.stdout = <<>>
    /\ cli.stderr = <<>>

----------------------------------------------------------------------------
(* C22: for a non-empty list of valid ranges the segments strictly         *)
(* alternate between plain and highlighted (no two consecutive segments    *)
(* have the same kind) and no segment has empty content.                   *)
C22_AlternatingNonEmpty ==
    (Rendered /\ AllValid) =>
        /\ \A i \in 1..Len(parts) :
              /\ parts[i].kind \in {"plain", "highlighted"}
              /\ parts[i].content # <<>>
        /\ \A i \in 1..(Len(parts) - 1) : parts[i].kind # parts[i + 1].kind

\* two adjacent ranges given in descending order, and text around them
C22_Witness ==
    /\ Rendered
    /\ AllValid
    /\ Len(highlights) = 3
    /\ highlights[2][2] + 1 = highlights[1][1]
    /\ highlights[3][1] > highlights[1][2] + 1
    /\ Len(parts) = 5
    /\ parts[1].kind = "plain"
    /\ parts[2].kind = "highlighted"
    /\ parts[3].kind = "plain"
    /\ parts[4].kind = "highlighted"
    /\ parts[5].kind = "plain"

----------------------------------------------------------------------------
(* C23: for any list of valid ranges, an index of the text lies inside a   *)
(* highlighted segment if and only if at least one input range covers it   *)
(* (start <= i <= end).                                                    *)
C23_HighlightedIffCovered ==
    (pc = "returned" /\ AllValid) =>
        \A x \in 0..(Len(text) - 1) :
            (\E k \in 1..Len(parts) :
                /\ parts[k].kind = "highlighted"
                /\ parts[k].from <= x
                /\ x < parts[k].to
                /\ parts[k].content = Chars(parts[k].from, parts[k].to))
            <=>
            (\E i \in 1..Len(highlights) :
                highlights[i][1] <= x /\ x <= highlights[i][2])

\* a range inside an earlier, longer one; some index covered, some not
C23_Witness ==
    /\ Rendered
    /\ AllValid
    /\ Len(highlights) = 2
    /\ highlights[1][1] < highlights[2][1]
    /\ highlights[2][2] < highlights[1][2]
    /\ highlights[1][2] < Len(text) - 1
    /\ Len(HighlightedParts) = 1
    /\ MarksExactly(HighlightedParts[1], highlights[1][1], highlights[1][2])

----------------------------------------------------------------------------
(* C24: order independence.  For any list of valid ranges, every list of   *)
(* the same ranges (in any order, each any number of times) yields the     *)
(* identical segment sequence.                                             *)
C24_OrderIndependent ==
    (pc = "returned" /\ highlightsDefined /\ AllValid) =>
        \A other \in Lists(Members(highlights), MaxRangesPerm + 1) :
            Members(other) = Members(highlights) =>
                HighlightedTextParts(text, other) = parts

\* two ranges of the same start, the longer one first
C24_Witness ==
    /\ Rendered
    /\ AllValid
    /\ Len(highlights) = 2
    /\ highlights[1][1] = highlights[2][1]
    /\ highlights[1][2] > highlights[2][2]
    /\ HighlightedTextParts(text, <<highlights[2], highlights[1],
                                    highlights[2]>>) = parts
    /\ Len(parts) = 3

====
